---- MODULE Spec2Model ----
(***************************************************************************)
(* Fire-in-paradise: a bot walks a maze ("ship") towards a button while a  *)
(* fire spreads.  The model follows src/ship.py, src/cell.py, src/bot.py,  *)
(* src/environment.py and src/botcontroller.py.                            *)
(*                                                                         *)
(* A cell is the pair <<row, col>>.  The flammability q is the rational    *)
(* q / QDen.  make_action (botcontroller.py:388-396) hands the direction   *)
(* of get_next_move to the environment's tick, which applies it with       *)
(* Bot.move (bot.py:7-26) and then runs environment.py:101-113.            *)
(***************************************************************************)
EXTENDS Integers, Sequences, FiniteSets, TLC

\* ---------------------------------------------------------------- bounds
Dim == 5          \* ship dimension (ship.py:5), rows and columns 0..Dim-1
QDen == 2         \* q ranges over 0/QDen .. QDen/QDen
MaxTicks == 4     \* largest number of update_fire calls counted in elapsed
MaxLookahead == 2 \* largest time and remaining depth of a studied expectimax call

\* ------------------------------------------------------ program constants
DefaultDimension == 40 \* ship.py:5, the dimension of a ship built by default
MaxDepth == 5          \* botcontroller.py:112, max_depth of the lookahead

\* ------------------------------------------------------------- the ship
Cells == (0..(Dim - 1)) \X (0..(Dim - 1))

\* Open-cell layouts that generate_maze (ship.py:80-115) produces on a
\* 3 x 3 ship, kept in the upper left corner of the grid; every other cell
\* is closed:   #.#        ..#
\*              ...        #..
\*              ...        #..
Mazes ==
  { { <<0,1>>, <<1,0>>, <<1,1>>, <<1,2>>, <<2,0>>, <<2,1>>, <<2,2>> },
    { <<0,0>>, <<0,1>>, <<1,1>>, <<1,2>>, <<2,1>>, <<2,2>> } }

QValues == 0..QDen
Strategies == {1, 2, 3, 4, 5}

VARIABLES
  open,            \* set of cells with Cell.open (cell.py:6)
  on_fire,         \* set of cells with Cell.on_fire (cell.py:7)
  q,               \* Environment.q, as the numerator of q / QDen
  bot,             \* the bot's cell <<row, col>> (bot.py:4-5)
  button_cell,     \* Environment.button_cell
  initial_fire_cell, \* Environment.fire_cell, the cell ignited at construction
  strategy,        \* BotController.strategy
  path,            \* BotController.path, the stored plan of strategy 1
  plan,            \* the path get_next_move planned or consumed in the last call
  plan_blocked,    \* the blocked set of the a_star call that produced it
  direction,       \* the direction the last get_next_move returned
  new_fire_cells,  \* the cells the last update_fire ignited (environment.py:38)
  status,          \* result of the last tick
  lookahead,       \* one call of expectimax: its arguments and its result
  elapsed,         \* the number of calls of update_fire so far, where counted
  forecast,        \* a fire forecast: the burning set and time it was computed
                   \* from, and the matrix fire_time
  decision,        \* one call of expectimax_decision: the root searches it ran
                   \* and the move it returned
  on_fire_cells,   \* Ship.on_fire_cells (ship.py:8), where the ship's fire sets
                   \* are followed
  history_fire_cells \* Ship.history_fire_cells (ship.py:9), likewise

vars == << open, on_fire, q, bot, button_cell, initial_fire_cell, strategy,
           path, plan, plan_blocked, direction, new_fire_cells, status,
           lookahead, elapsed, forecast, decision, on_fire_cells,
           history_fire_cells >>

\* ship.py:18-19
cell_in_bounds(row, col) == row \in 0..(Dim - 1) /\ col \in 0..(Dim - 1)

\* ship.py:29, the fixed enumeration order up, down, left, right
Offsets == << <<-1, 0>>, <<1, 0>>, <<0, -1>>, <<0, 1>> >>

\* ship.py:25-32, Cell.neighbors in enumeration order
neighbors(cell) ==
  SelectSeq([i \in 1..4 |-> <<cell[1] + Offsets[i][1], cell[2] + Offsets[i][2]>>],
            LAMBDA n : cell_in_bounds(n[1], n[2]))

SeqToSet(s) == {s[i] : i \in 1..Len(s)}

\* cell.py:29-31
get_open_neighbors(cell) == SelectSeq(neighbors(cell), LAMBDA n : n \in open)

\* cell.py:21-23, on the burning set fire
count_burning_neighbors(cell, fire) ==
  Cardinality({i \in 1..Len(neighbors(cell)) : neighbors(cell)[i] \in fire})

\* ship.py:43-45, open cells in row-major order
RECURSIVE RowMajor(_)
RowMajor(i) ==
  IF i = Dim * Dim THEN <<>>
  ELSE LET c == << i \div Dim, i % Dim >>
       IN (IF c \in open THEN <<c>> ELSE <<>>) \o RowMajor(i + 1)

get_open_cells == RowMajor(0)

\* ship.py:47-49
get_on_fire_cells == {c \in SeqToSet(get_open_cells) : c \in on_fire}

\* ------------------------------------------------------- the fire model
\* the chance (1 - q)^k, the complement of the ignition chance
SurvivalNum(k) == (QDen - q)^k

\* environment.py:43, 1 - (1 - q)^k as the numerator over QDen^k
ProbabilityNum(k) == QDen^k - (QDen - q)^k

\* environment.py:44, random.random() draws from [0, 1): the draw can fall
\* below the probability iff it is positive, and at or above it iff it is
\* below one
CanIgnite(k) == ProbabilityNum(k) > 0
CanStayUnburnt(k) == ProbabilityNum(k) < QDen^k

\* The loop of update_fire with every ignition applied at once while the
\* cells are still being examined (an intra-step cascade).
RECURSIVE CascadingFireCells(_, _, _)
CascadingFireCells(cells, snapshot, acc) ==
  IF cells = <<>> THEN {acc}
  ELSE LET cell == Head(cells)
           k == count_burning_neighbors(cell, snapshot \cup acc)
       IN IF cell \in snapshot \/ k = 0
          THEN CascadingFireCells(Tail(cells), snapshot, acc)
          ELSE (IF CanIgnite(k)
                THEN CascadingFireCells(Tail(cells), snapshot, acc \cup {cell})
                ELSE {})
               \cup
               (IF CanStayUnburnt(k)
                THEN CascadingFireCells(Tail(cells), snapshot, acc)
                ELSE {})

\* environment.py:38-45, the loop over get_open_cells() that collects
\* new_fire_cells: the set of lists the random draws can produce, given the
\* cells still to examine, the burning set and the cells collected so far
RECURSIVE CollectNewFireCells(_, _, _)
CollectNewFireCells(cells, snapshot, acc) ==
  IF cells = <<>> THEN {acc}
  ELSE LET cell == Head(cells)
           k == count_burning_neighbors(cell, snapshot)
       IN IF cell \in snapshot \/ k = 0
          THEN CollectNewFireCells(Tail(cells), snapshot, acc)
          ELSE (IF CanIgnite(k)
                THEN CollectNewFireCells(Tail(cells), snapshot, acc \cup {cell})
                ELSE {})
               \cup
               (IF CanStayUnburnt(k)
                THEN CollectNewFireCells(Tail(cells), snapshot, acc)
                ELSE {})

\* environment.py:31-48, the possible values of new_fire_cells for one call
update_fire == CollectNewFireCells(get_open_cells, on_fire, {})

\* ---------------------------------------------------------- the search
\* botcontroller.py:72-73
heuristic(a, b) ==
  (IF a[1] >= b[1] THEN a[1] - b[1] ELSE b[1] - a[1]) +
  (IF a[2] >= b[2] THEN a[2] - b[2] ELSE b[2] - a[2])

\* heapq on (f, counter, cell) tuples: smallest f first, then smallest counter
HeapMin(heap) ==
  CHOOSE e \in heap :
    \A o \in heap : e[1] < o[1] \/ (e[1] = o[1] /\ e[2] <= o[2])

\* botcontroller.py:83-91, walk came_from back from the goal, reverse, drop
\* a leading start
RECURSIVE WalkBack(_, _)
WalkBack(current, came_from) ==
  IF current \in DOMAIN came_from
  THEN WalkBack(came_from[current], came_from) \o <<current>>
  ELSE <<>>

ReconstructPath(current, came_from, start) ==
  LET p == WalkBack(current, came_from)
  IN IF p # <<>> /\ Head(p) = start THEN Tail(p) ELSE p

\* the neighbour loop without the test against the blocked set
RECURSIVE RelaxIgnoringBlocked(_, _, _, _, _, _)
RelaxIgnoringBlocked(st, current, nbrs, i, goal, blocked) ==
  IF i > Len(nbrs) THEN st
  ELSE LET neighbor == nbrs[i]
           tentative_g == st.g_score[current] + 1
       IN IF /\ neighbor \in open
             /\ (neighbor \notin DOMAIN st.g_score \/ tentative_g < st.g_score[neighbor])
          THEN RelaxIgnoringBlocked(
                     [open_heap |-> st.open_heap \cup
                        {<< tentative_g + heuristic(neighbor, goal), st.counter, neighbor >>},
                      g_score |-> (neighbor :> tentative_g) @@ st.g_score,
                      came_from |-> (neighbor :> current) @@ st.came_from,
                      counter |-> st.counter + 1],
                     current, nbrs, i + 1, goal, blocked)
          ELSE RelaxIgnoringBlocked(st, current, nbrs, i + 1, goal, blocked)

\* the neighbour loop without the test neighbor.is_open()
RECURSIVE RelaxThroughClosed(_, _, _, _, _, _)
RelaxThroughClosed(st, current, nbrs, i, goal, blocked) ==
  IF i > Len(nbrs) THEN st
  ELSE LET neighbor == nbrs[i]
           tentative_g == st.g_score[current] + 1
       IN IF /\ neighbor \notin blocked
             /\ (neighbor \notin DOMAIN st.g_score \/ tentative_g < st.g_score[neighbor])
          THEN RelaxThroughClosed(
                     [open_heap |-> st.open_heap \cup
                        {<< tentative_g + heuristic(neighbor, goal), st.counter, neighbor >>},
                      g_score |-> (neighbor :> tentative_g) @@ st.g_score,
                      came_from |-> (neighbor :> current) @@ st.came_from,
                      counter |-> st.counter + 1],
                     current, nbrs, i + 1, goal, blocked)
          ELSE RelaxThroughClosed(st, current, nbrs, i + 1, goal, blocked)

\* botcontroller.py:93-101, the loop over current.neighbors from index i on;
\* st is the record of open_heap, g_score, came_from and counter
RECURSIVE Relax(_, _, _, _, _, _)
Relax(st, current, nbrs, i, goal, blocked) ==
  IF i > Len(nbrs) THEN st
  ELSE LET neighbor == nbrs[i]
           tentative_g == st.g_score[current] + 1
       IN IF /\ neighbor \in open
             /\ neighbor \notin blocked
             /\ (neighbor \notin DOMAIN st.g_score \/ tentative_g < st.g_score[neighbor])
          THEN Relax([open_heap |-> st.open_heap \cup
                        {<< tentative_g + heuristic(neighbor, goal), st.counter, neighbor >>},
                      g_score |-> (neighbor :> tentative_g) @@ st.g_score,
                      came_from |-> (neighbor :> current) @@ st.came_from,
                      counter |-> st.counter + 1],
                     current, nbrs, i + 1, goal, blocked)
          ELSE Relax(st, current, nbrs, i + 1, goal, blocked)

\* botcontroller.py:80-102, the while loop of _cached_a_star
RECURSIVE AStarLoop(_, _, _, _)
AStarLoop(st, start, goal, blocked) ==
  IF st.open_heap = {} THEN <<>>
  ELSE LET top == HeapMin(st.open_heap)
           current == top[3]
           popped == [st EXCEPT !.open_heap = @ \ {top}]
       IN IF current = goal
          THEN ReconstructPath(current, st.came_from, start)
          ELSE AStarLoop(Relax(popped, current, neighbors(current), 1, goal, blocked),
                         start, goal, blocked)

\* botcontroller.py:59-102, _cached_a_star: the path as a sequence of cells
cached_a_star(start, goal, blocked) ==
  AStarLoop([open_heap |-> {<< heuristic(start, goal), 0, start >>},
             g_score |-> (start :> 0),
             came_from |-> << >>,
             counter |-> 1],
            start, goal, blocked)

\* botcontroller.py:49-56
a_star(start, goal, blocked) == cached_a_star(start, goal, blocked)

\* -------------------------------------------------------- the planners
\* botcontroller.py:21-25
plan_path_bot1 == a_star(bot, button_cell, {initial_fire_cell})

\* strategy 2 blocking the initial fire cell only
plan_path_bot2_initial_fire == a_star(bot, button_cell, {initial_fire_cell})

\* botcontroller.py:27-31
plan_path_bot2 == a_star(bot, button_cell, get_on_fire_cells)

\* the strict blocked set without the neighbours of the burning cells
blocked_strict_fire_only == get_on_fire_cells

\* botcontroller.py:38-39
blocked_strict ==
  get_on_fire_cells \cup
  {n \in open : \E cell \in get_on_fire_cells : n \in SeqToSet(neighbors(cell))}

\* plan_path_bot3 without the fallback of lines 42-45
plan_path_bot3_no_fallback ==
  [path |-> a_star(bot, button_cell, blocked_strict),
   blocked |-> blocked_strict,
   fell_back |-> a_star(bot, button_cell, blocked_strict) = <<>>]

\* botcontroller.py:33-46; blocked is the blocked set of the search whose
\* result is returned, fell_back tells whether line 45 ran
plan_path_bot3_run ==
  LET strict == a_star(bot, button_cell, blocked_strict)
  IN IF strict = <<>>
     THEN [path |-> a_star(bot, button_cell, get_on_fire_cells),
           blocked |-> get_on_fire_cells, fell_back |-> TRUE]
     ELSE [path |-> strict, blocked |-> blocked_strict, fell_back |-> FALSE]

plan_path_bot3 == plan_path_bot3_run.path

\* ------------------------------------------------- the lookahead planner
\* -math.inf (botcontroller.py:127, 153): below every value evaluate returns
\* on the ship
NegInf == 0 - (10000 + 40 * Dim + 10 + 1)

\* simulate_fire taking every neighbour of a burning cell for a candidate,
\* open or not
simulate_fire_any_cell(fire_set) ==
  LET candidate_cells ==
        {n \in Cells \ fire_set :
           \E cell \in fire_set : n \in SeqToSet(neighbors(cell))}
  IN { fire_set \cup ignited :
         ignited \in
           {s \in SUBSET candidate_cells :
              /\ \A cell \in s : CanIgnite(count_burning_neighbors(cell, fire_set))
              /\ \A cell \in candidate_cells \ s :
                   CanStayUnburnt(count_burning_neighbors(cell, fire_set))} }

\* botcontroller.py:194-213, the frozensets the random draws can produce
simulate_fire(fire_set) ==
  LET candidate_cells ==
        {n \in open \ fire_set :
           \E cell \in fire_set : n \in SeqToSet(neighbors(cell))}
  IN { fire_set \cup ignited :
         ignited \in
           {s \in SUBSET candidate_cells :
              /\ \A cell \in s : CanIgnite(count_burning_neighbors(cell, fire_set))
              /\ \A cell \in candidate_cells \ s :
                   CanStayUnburnt(count_burning_neighbors(cell, fire_set))} }

\* simulate_fire igniting the sampled cells on the ship and adding them to
\* the set it was given
simulate_fire_igniting(fire_set) ==
  { [new_fire_set |-> new_fire_set, fire_set |-> new_fire_set,
     on_fire |-> on_fire \cup new_fire_set] :
      new_fire_set \in simulate_fire(fire_set) }

\* botcontroller.py:194-213 with what the call leaves behind: the frozenset
\* returned, the set passed in and the on_fire flags of the ship after the
\* call.  new_fire_set is a copy, set(fire_set) (line 201), and the only
\* target of add (line 212); no cell is ignited.
simulate_fire_run(fire_set) ==
  { [new_fire_set |-> new_fire_set, fire_set |-> fire_set, on_fire |-> on_fire] :
      new_fire_set \in simulate_fire(fire_set) }

\* botcontroller.py:169-175; a state is << bot, fire_set, t >>
is_terminal(state) == state[1] = button_cell \/ state[1] \in state[2]

\* evaluate testing the fire before the button
evaluate_fire_first(state) ==
  IF state[1] \in state[2] THEN 0 - 10000
  ELSE IF state[1] = button_cell THEN 10000 - state[3]
  ELSE 0 - (heuristic(state[1], button_cell) * 20) - state[3]

\* evaluate weighing a step of distance 200 instead of 20
evaluate_steep(state) ==
  IF state[1] = button_cell THEN 10000 - state[3]
  ELSE IF state[1] \in state[2] THEN 0 - 10000
  ELSE 0 - (heuristic(state[1], button_cell) * 200) - state[3]

\* botcontroller.py:177-192
evaluate(state) ==
  IF state[1] = button_cell THEN 10000 - state[3]
  ELSE IF state[1] \in state[2] THEN 0 - 10000
  ELSE 0 - (heuristic(state[1], button_cell) * 20) - state[3]

\* botcontroller.py:163, one call of simulate_fire.  With q = 0 and q = 1
\* every draw has one outcome and the call returns the one frozenset;
\* the lookahead is evaluated for these q only (see Init).
SampleFire(fire_set) == CHOOSE f \in simulate_fire(fire_set) : TRUE

\* botcontroller.py:143-167.  The result is the value returned and calls,
\* the number of calls of expectimax the call made below itself.  The
\* num_samples samples of a chance node are equal sets (see SampleFire), so
\* the num_samples recursive calls return one value v, total is
\* num_samples * v and the value is total / num_samples.  Every intermediate
\* result is bound through a one-element set, so that it is computed once.
RECURSIVE expectimax(_, _, _, _)
RECURSIVE MaxOverMoves(_, _, _, _, _, _)
MaxOverMoves(state, nbrs, i, depth, num_samples, acc) ==
  IF i > Len(nbrs) THEN acc
  ELSE IF nbrs[i] \notin open
  THEN MaxOverMoves(state, nbrs, i + 1, depth, num_samples, acc)
  ELSE CHOOSE result \in
         { MaxOverMoves(state, nbrs, i + 1, depth, num_samples, best) :
             best \in
               { [value |-> IF val.value > acc.value THEN val.value ELSE acc.value,
                  calls |-> acc.calls + 1 + val.calls] :
                   val \in
                     { expectimax(new_state, depth, FALSE, num_samples) :
                         new_state \in { << nbrs[i], state[2], state[3] + 1 >> } } } } :
         TRUE

expectimax(state, depth, is_bot_turn, num_samples) ==
  IF is_terminal(state) \/ depth = 0
  THEN [value |-> evaluate(state), calls |-> 0]
  ELSE IF is_bot_turn
  THEN MaxOverMoves(state, neighbors(state[1]), 1, depth, num_samples,
                    [value |-> NegInf, calls |-> 0])
  ELSE CHOOSE result \in
         { [value |-> (num_samples * sampled.value) \div num_samples,
            calls |-> num_samples * (1 + sampled.calls)] :
             sampled \in
               { expectimax(new_state, new_depth, TRUE, num_samples) :
                   new_state \in { << state[1], SampleFire(state[2]), state[3] >> },
                   new_depth \in { depth - 1 } } } :
         TRUE

\* the loop over the bot's neighbours in which a later neighbour of equal
\* value replaces the candidate
RECURSIVE RootMovesLastFound(_, _, _, _, _)
RootMovesLastFound(nbrs, i, depth, num_samples, acc) ==
  IF i > Len(nbrs) THEN acc
  ELSE IF nbrs[i] \notin open
  THEN RootMovesLastFound(nbrs, i + 1, depth, num_samples, acc)
  ELSE CHOOSE result \in
         { RootMovesLastFound(nbrs, i + 1, depth, num_samples, best) :
             best \in
               { [best_value |-> IF val.value >= acc.best_value
                                 THEN val.value ELSE acc.best_value,
                  candidate_move |-> IF val.value >= acc.best_value
                                     THEN << nbrs[i] >> ELSE acc.candidate_move,
                  examined |-> Append(acc.examined,
                                      [move |-> nbrs[i], value |-> val.value])] :
                   val \in
                     { expectimax(new_state, depth, FALSE, num_samples) :
                         new_state \in { << nbrs[i], get_on_fire_cells, 1 >> } } } } :
         TRUE

\* botcontroller.py:128-137, the loop over the bot's neighbours at one depth;
\* acc holds best_value and candidate_move, the empty tuple standing for
\* None, and examined, the neighbours valued so far with their values
RECURSIVE RootMoves(_, _, _, _, _)
RootMoves(nbrs, i, depth, num_samples, acc) ==
  IF i > Len(nbrs) THEN acc
  ELSE IF nbrs[i] \notin open
  THEN RootMoves(nbrs, i + 1, depth, num_samples, acc)
  ELSE CHOOSE result \in
         { RootMoves(nbrs, i + 1, depth, num_samples, best) :
             best \in
               { [best_value |-> IF val.value > acc.best_value
                                 THEN val.value ELSE acc.best_value,
                  candidate_move |-> IF val.value > acc.best_value
                                     THEN << nbrs[i] >> ELSE acc.candidate_move,
                  examined |-> Append(acc.examined,
                                      [move |-> nbrs[i], value |-> val.value])] :
                   val \in
                     { expectimax(new_state, depth, FALSE, num_samples) :
                         new_state \in { << nbrs[i], get_on_fire_cells, 1 >> } } } } :
         TRUE

\* the loop over the depths keeping the move of the first depth
RECURSIVE DeepenKeepFirst(_, _, _, _)
DeepenKeepFirst(depth, max_depth, num_samples, acc) ==
  IF depth > max_depth THEN acc
  ELSE CHOOSE result \in
         { DeepenKeepFirst(new_depth, max_depth, num_samples, next) :
             next \in
               { [best_move |-> IF acc.best_move = << >>
                                THEN found.candidate_move ELSE acc.best_move,
                  rounds |-> Append(acc.rounds,
                                    [depth |-> depth,
                                     examined |-> found.examined,
                                     best_value |-> found.best_value,
                                     candidate_move |-> found.candidate_move])] :
                   found \in
                     { RootMoves(neighbors(bot), 1, depth, num_samples,
                                 [best_value |-> NegInf, candidate_move |-> << >>,
                                  examined |-> << >>]) } },
             new_depth \in { depth + 1 } } :
         TRUE

\* botcontroller.py:125-140, the depths from depth to max_depth; acc holds
\* best_move and rounds, the root searches run so far: the depth of each,
\* the neighbours it valued, its best_value and its candidate_move
RECURSIVE Deepen(_, _, _, _)
Deepen(depth, max_depth, num_samples, acc) ==
  IF depth > max_depth THEN acc
  ELSE CHOOSE result \in
         { Deepen(new_depth, max_depth, num_samples, next) :
             next \in
               { [best_move |-> IF found.candidate_move # << >>
                                THEN found.candidate_move ELSE acc.best_move,
                  rounds |-> Append(acc.rounds,
                                    [depth |-> depth,
                                     examined |-> found.examined,
                                     best_value |-> found.best_value,
                                     candidate_move |-> found.candidate_move])] :
                   found \in
                     { RootMoves(neighbors(bot), 1, depth, num_samples,
                                 [best_value |-> NegInf, candidate_move |-> << >>,
                                  examined |-> << >>]) } },
             new_depth \in { depth + 1 } } :
         TRUE

\* botcontroller.py:117-141 with the root searches it ran
expectimax_decision_run(max_depth, num_samples) ==
  Deepen(1, max_depth, num_samples, [best_move |-> << >>, rounds |-> << >>])

\* botcontroller.py:117-141: << cell >> for the best next cell, << >> for None
expectimax_decision(max_depth, num_samples) ==
  expectimax_decision_run(max_depth, num_samples).best_move

\* botcontroller.py:105-115
plan_path_bot4 == expectimax_decision(MaxDepth, 5)

\* ------------------------------------------------ the fire forecasts
\* float('inf') (botcontroller.py:302): above every arrival time and every
\* count of examined edges a search on the ship can produce
Inf == 4 * Dim * Dim * Dim * Dim + 1

\* botcontroller.py:311-316, the loop over the neighbours of the dequeued
\* cell from index i on; t is the dequeued arrival time
RECURSIVE RiskVisit(_, _, _, _)
RiskVisit(st, nbrs, i, t) ==
  IF i > Len(nbrs) THEN st
  ELSE LET neighbor == nbrs[i]
       IN IF neighbor \in open /\ st.fire_time[neighbor] = Inf
          THEN RiskVisit([fire_time |-> [st.fire_time EXCEPT ![neighbor] = t + 1],
                          queue |-> Append(st.queue, << neighbor, t + 1 >>)],
                         nbrs, i + 1, t)
          ELSE RiskVisit(st, nbrs, i + 1, t)

\* botcontroller.py:309-316, the while loop over the queue
RECURSIVE RiskLoop(_)
RiskLoop(st) ==
  IF st.queue = <<>> THEN st.fire_time
  ELSE LET x == Head(st.queue)[1]
           t == Head(st.queue)[2]
       IN RiskLoop(RiskVisit([st EXCEPT !.queue = Tail(@)], neighbors(x), 1, t))

\* botcontroller.py:293-317, the matrix fire_time as a function on the cells;
\* fire_starts is the list of start cells
predict_fire_spread_risk(fire_starts) ==
  RiskLoop([fire_time |-> [c \in Cells |->
                             IF c \in SeqToSet(fire_starts) THEN 0 ELSE Inf],
            queue |-> [i \in 1..Len(fire_starts) |-> << fire_starts[i], 0 >>]])

\* botcontroller.py:229-234, the loop over the neighbours of the dequeued
\* cell from index i on
RECURSIVE SpreadVisit(_, _, _, _)
SpreadVisit(st, nbrs, i, current_time) ==
  IF i > Len(nbrs) THEN st
  ELSE LET neighbor == nbrs[i]
       IN IF neighbor \in open /\ current_time + 1 < st.fire_times[neighbor]
          THEN SpreadVisit([fire_times |-> [st.fire_times EXCEPT ![neighbor] = current_time + 1],
                            queue |-> Append(st.queue, neighbor)],
                           nbrs, i + 1, current_time)
          ELSE SpreadVisit(st, nbrs, i + 1, current_time)

\* botcontroller.py:226-234, the while loop over the queue
RECURSIVE SpreadLoop(_)
SpreadLoop(st) ==
  IF st.queue = <<>> THEN st.fire_times
  ELSE LET current == Head(st.queue)
       IN SpreadLoop(SpreadVisit([st EXCEPT !.queue = Tail(@)], neighbors(current),
                                 1, st.fire_times[current]))

\* botcontroller.py:215-236, the dict fire_times as a function on the cells
predict_fire_spread ==
  SpreadLoop([fire_times |-> [c \in Cells |-> IF c = initial_fire_cell THEN 0 ELSE Inf],
              queue |-> << initial_fire_cell >>])

\* ------------------------------------------- the risk-aware planner
\* botcontroller.py:253-254, dx and dy: up, right, down, left
Offsets5 == << <<-1, 0>>, <<0, 1>>, <<1, 0>>, <<0, -1>> >>

\* heapq on (f, (row, col)) tuples: smallest f, then row, then column
HeapMin5(heap) ==
  CHOOSE e \in heap :
    \A o \in heap :
      \/ e[1] < o[1]
      \/ e[1] = o[1] /\ e[2][1] < o[2][1]
      \/ e[1] = o[1] /\ e[2][1] = o[2][1] /\ e[2][2] <= o[2][2]

\* botcontroller.py:265-270, came_from walked back from the goal and reversed
RECURSIVE WalkBack5(_, _)
WalkBack5(current, came_from) ==
  IF current \in DOMAIN came_from
  THEN WalkBack5(came_from[current], came_from) \o <<current>>
  ELSE <<>>

\* the cut-off that never rejects an edge
CutOffNever(arrival_time, fire_arrival) == FALSE

\* botcontroller.py:283, the hard cut-off of an edge
CutOff(arrival_time, fire_arrival) == arrival_time >= fire_arrival

\* botcontroller.py:273-290, the loop over the four directions from index i
\* on.  st holds open_set, came_from, g_score, the counter arrival_time and
\* edges, the record of every edge that reached line 280.
RECURSIVE Relax5(_, _, _, _, _)
Relax5(st, current, i, goal, fire_time) ==
  IF i > 4 THEN st
  ELSE LET neighbor == << current[1] + Offsets5[i][1], current[2] + Offsets5[i][2] >>
       IN IF /\ cell_in_bounds(neighbor[1], neighbor[2])
             /\ neighbor \in open
             /\ neighbor \notin on_fire
             /\ count_burning_neighbors(neighbor, on_fire) = 0
          THEN LET tentative_g_score == st.g_score[current] + 1
                   arrival_time == st.arrival_time + 1
                   fire_arrival == fire_time[neighbor]
                   rejected == CutOff(arrival_time, fire_arrival)
                   edge == [from |-> current, to |-> neighbor,
                            g |-> st.g_score[current],
                            arrival_time |-> arrival_time,
                            fire_arrival |-> fire_arrival,
                            rejected |-> rejected]
                   counted == [st EXCEPT !.arrival_time = arrival_time,
                                         !.edges = @ \cup {edge}]
               IN IF rejected
                  THEN Relax5(counted, current, i + 1, goal, fire_time)
                  ELSE IF \/ neighbor \notin DOMAIN st.g_score
                          \/ tentative_g_score < st.g_score[neighbor]
                  THEN LET new_f == IF fire_arrival = Inf THEN Inf
                                    ELSE tentative_g_score + heuristic(neighbor, goal)
                                         + (fire_arrival - arrival_time)
                       IN Relax5([counted EXCEPT
                                    !.came_from = (neighbor :> current) @@ @,
                                    !.g_score = (neighbor :> tentative_g_score) @@ @,
                                    !.open_set = @ \cup {<< new_f, neighbor >>}],
                                 current, i + 1, goal, fire_time)
                  ELSE Relax5(counted, current, i + 1, goal, fire_time)
          ELSE Relax5(st, current, i + 1, goal, fire_time)

\* botcontroller.py:263-290, the while loop: the path and the edges examined
RECURSIVE Loop5(_, _, _)
Loop5(st, goal, fire_time) ==
  IF st.open_set = {} THEN [path |-> <<>>, edges |-> st.edges]
  ELSE LET top == HeapMin5(st.open_set)
           current == top[2]
           popped == [st EXCEPT !.open_set = @ \ {top}]
       IN IF current = goal
          THEN [path |-> WalkBack5(current, st.came_from), edges |-> st.edges]
          ELSE Loop5(Relax5(popped, current, 1, goal, fire_time), goal, fire_time)

\* botcontroller.py:260, the forecast the planner consumes
fire_time_bot5 == predict_fire_spread_risk(<< initial_fire_cell >>)

\* botcontroller.py:241-291: the path returned and the edges examined
plan_path_bot5_run ==
  Loop5([open_set |-> {<< 0, bot >>},
         came_from |-> << >>,
         g_score |-> (bot :> 0),
         arrival_time |-> 0,
         edges |-> {}],
        button_cell, fire_time_bot5)

plan_path_bot5 == plan_path_bot5_run.path

\* botcontroller.py:325-335
get_direction_from_positions(current, next_cell) ==
  IF next_cell[1] < current[1] THEN "up"
  ELSE IF next_cell[1] > current[1] THEN "down"
  ELSE IF next_cell[2] < current[2] THEN "left"
  ELSE IF next_cell[2] > current[2] THEN "right"
  ELSE "None"

\* get_random_valid_move choosing among the open neighbours that do not burn
get_random_safe_move ==
  LET valid_moves == {get_direction_from_positions(bot, n) :
                        n \in SeqToSet(get_open_neighbors(bot)) \ on_fire}
  IN IF valid_moves # {} THEN valid_moves ELSE {"None"}

\* get_random_valid_move choosing among all neighbours, open or closed
get_random_any_move ==
  LET valid_moves == {get_direction_from_positions(bot, n) :
                        n \in SeqToSet(neighbors(bot))}
  IN IF valid_moves # {} THEN valid_moves ELSE {"None"}

\* botcontroller.py:337-343, the directions random.choice can return
get_random_valid_move ==
  LET valid_moves == {get_direction_from_positions(bot, n) :
                        n \in SeqToSet(get_open_neighbors(bot))}
  IN IF valid_moves # {} THEN valid_moves ELSE {"None"}

\* move stepping into every cell of the grid, open or closed
move_through_walls(dir) ==
  LET target == CASE dir = "up"    -> << bot[1] - 1, bot[2] >>
                  [] dir = "down"  -> << bot[1] + 1, bot[2] >>
                  [] dir = "left"  -> << bot[1], bot[2] - 1 >>
                  [] dir = "right" -> << bot[1], bot[2] + 1 >>
                  [] OTHER         -> bot
  IN IF cell_in_bounds(target[1], target[2]) THEN target ELSE bot

\* bot.py:7-26, the bot's cell after move(dir)
move(dir) ==
  LET target == CASE dir = "up"    -> << bot[1] - 1, bot[2] >>
                  [] dir = "down"  -> << bot[1] + 1, bot[2] >>
                  [] dir = "left"  -> << bot[1], bot[2] - 1 >>
                  [] dir = "right" -> << bot[1], bot[2] + 1 >>
                  [] OTHER         -> bot
  IN IF cell_in_bounds(target[1], target[2]) /\ target \in open THEN target ELSE bot

\* botcontroller.py:357-374, the replanning strategies 2, 3 and 4: the
\* outcomes of get_next_move for the path planned now with the blocked set
\* blocking; path is the stored path of strategy 1, left alone
ReplanMove(planned, blocking) ==
  { [direction |-> d, path |-> path, plan |-> planned, plan_blocked |-> blocking] :
      d \in IF planned = <<>>
            THEN get_random_valid_move
            ELSE {get_direction_from_positions(bot, planned[1])} }

\* botcontroller.py:369-379, strategy 5: the first cell of the path, or the
\* second when the first is the bot's own cell; no search with a blocked set
\* is involved, plan_blocked is left alone
Move5(planned) ==
  { [direction |-> d, path |-> path, plan |-> planned, plan_blocked |-> plan_blocked] :
      d \in IF planned = <<>>
            THEN get_random_valid_move
            ELSE LET next_pos == IF planned[1] = bot /\ Len(planned) > 1
                                 THEN planned[2] ELSE planned[1]
                 IN {get_direction_from_positions(bot, next_pos)} }

\* get_next_move replanning with strategy 1 as well
get_next_move_replanning ==
  IF strategy \in {1, 2}
  THEN ReplanMove(plan_path_bot2, get_on_fire_cells)
  ELSE IF strategy = 3
  THEN ReplanMove(plan_path_bot3_run.path, plan_path_bot3_run.blocked)
  ELSE IF strategy = 4
  THEN UNION { ReplanMove(planned, plan_blocked) : planned \in {plan_path_bot4} }
  ELSE IF strategy = 5
  THEN Move5(plan_path_bot5)
  ELSE {[direction |-> "None", path |-> path, plan |-> <<>>, plan_blocked |-> plan_blocked]}

\* botcontroller.py:345-386, the outcomes of get_next_move: the direction
\* returned, self.path afterwards, and the path and blocked set it used
get_next_move ==
  IF strategy = 1
  THEN IF path = <<>>
       THEN { [direction |-> d, path |-> path, plan |-> path, plan_blocked |-> plan_blocked] :
                d \in get_random_valid_move }
       ELSE { [direction |-> get_direction_from_positions(bot, Head(path)),
               path |-> Tail(path), plan |-> path, plan_blocked |-> plan_blocked] }
  ELSE IF strategy = 2
  THEN ReplanMove(plan_path_bot2, get_on_fire_cells)
  ELSE IF strategy = 3
  THEN ReplanMove(plan_path_bot3_run.path, plan_path_bot3_run.blocked)
  ELSE IF strategy = 4
  THEN UNION { ReplanMove(planned, plan_blocked) : planned \in {plan_path_bot4} }
  ELSE IF strategy = 5
  THEN Move5(plan_path_bot5)
  ELSE {[direction |-> "None", path |-> path, plan |-> <<>>, plan_blocked |-> plan_blocked]}

\* ------------------------------------------------------ the environment
\* tick extinguishing the fire when the bot is caught as well
tick_extinguish_on_failure(dir) ==
  /\ bot' = move(dir)
  /\ \E ignited \in update_fire :
       LET burning == on_fire \cup ignited
       IN /\ new_fire_cells' = ignited
          /\ IF bot' \in burning
             THEN status' = "failure" /\ on_fire' = {}
             ELSE IF bot' = button_cell
                  THEN status' = "success" /\ on_fire' = {}
                  ELSE status' = "ongoing" /\ on_fire' = burning

\* tick extinguishing only the cells that burnt before its update_fire
tick_stale_extinguish(dir) ==
  /\ bot' = move(dir)
  /\ \E ignited \in update_fire :
       LET burning == on_fire \cup ignited
       IN /\ new_fire_cells' = ignited
          /\ IF bot' \in burning
             THEN status' = "failure" /\ on_fire' = burning
             ELSE IF bot' = button_cell
                  THEN status' = "success" /\ on_fire' = burning \ get_on_fire_cells
                  ELSE status' = "ongoing" /\ on_fire' = burning

\* environment.py:74-113, tick with the direction of make_action: the move,
\* update_fire, then the fire check and the button check in that order.
\* Igniting a cell sets its on_fire flag and extinguishing clears it, as in
\* ship.py:69-78.
tick(dir) ==
  /\ bot' = move(dir)
  /\ \E ignited \in update_fire :
       LET burning == on_fire \cup ignited
       IN /\ new_fire_cells' = ignited
          /\ IF bot' \in burning
             THEN status' = "failure" /\ on_fire' = burning
             ELSE IF bot' = button_cell
                  THEN status' = "success" /\ on_fire' = {}
                  ELSE status' = "ongoing" /\ on_fire' = burning

\* botcontroller.py:388-396 driven by the loop of statistics.py:40-42, which
\* stops at the first result other than "ongoing"
make_action ==
  /\ status = "ongoing"
  /\ strategy # 0
  /\ \E m \in get_next_move :
       /\ direction' = m.direction
       /\ path' = m.path
       /\ plan' = m.plan
       /\ plan_blocked' = m.plan_blocked
       /\ tick(m.direction)
  /\ UNCHANGED << open, q, button_cell, initial_fire_cell, strategy, lookahead,
                  elapsed, forecast, decision,
                  on_fire_cells, history_fire_cells >>

\* the value of forecast while no forecast is under study
NoForecast == [from |-> {}, at |-> 0, fire_time |-> [c \in Cells |-> Inf]]

\* the value of decision while no call of expectimax_decision is under study
NoDecision == [best_move |-> << >>, rounds |-> << >>]

\* the value of lookahead while no call of expectimax is under study
NoLookahead ==
  [state |-> << <<0, 0>>, {}, 0 >>, depth |-> 0, is_bot_turn |-> FALSE,
   value |-> 0, calls |-> 0]

\* ship.py:5-16, environment.py:12-29, botcontroller.py:9-19: a generated
\* ship, three distinct open cells for bot, button and fire, the fire cell
\* ignited, and the path of strategy 1 planned at construction
Init ==
  /\ open \in Mazes
  /\ q \in QValues
  /\ strategy \in Strategies
  /\ strategy = 4 => q \in {0, QDen}
  /\ bot \in open
  /\ button_cell \in open \ {bot}
  /\ initial_fire_cell \in open \ {bot, button_cell}
  /\ on_fire = {initial_fire_cell}
  /\ path = IF strategy = 1 THEN a_star(bot, button_cell, {initial_fire_cell}) ELSE <<>>
  /\ plan = <<>>
  /\ plan_blocked = IF strategy = 1 THEN {initial_fire_cell} ELSE {}
  /\ direction = "None"
  /\ new_fire_cells = {}
  /\ status = "ongoing"
  /\ lookahead = NoLookahead
  /\ elapsed = 0
  /\ forecast = NoForecast
  /\ decision = NoDecision
  /\ on_fire_cells = {}
  /\ history_fire_cells = {}

Next == make_action

Spec == Init /\ [][Next]_vars

\* ------------------------------------------- the search as a function
\* One call a_star(start, goal, blocked) (botcontroller.py:49-56) on a
\* generated ship: start is the bot's cell, goal the button cell, two
\* distinct open cells (environment.py:23), blocked any set of open cells.
InitSearch ==
  /\ open \in Mazes
  /\ bot \in open
  /\ button_cell \in open \ {bot}
  /\ plan_blocked \in SUBSET open
  /\ plan = <<>>
  /\ status = "query"
  /\ q = 0
  /\ strategy = 0
  /\ initial_fire_cell = bot
  /\ on_fire = {}
  /\ path = <<>>
  /\ direction = "None"
  /\ new_fire_cells = {}
  /\ lookahead = NoLookahead
  /\ elapsed = 0
  /\ forecast = NoForecast
  /\ decision = NoDecision
  /\ on_fire_cells = {}
  /\ history_fire_cells = {}

Search ==
  /\ status = "query"
  /\ plan' = a_star(bot, button_cell, plan_blocked)
  /\ status' = "planned"
  /\ UNCHANGED << open, on_fire, q, bot, button_cell, initial_fire_cell, strategy,
                  path, plan_blocked, direction, new_fire_cells, lookahead,
                  elapsed, forecast, decision,
                  on_fire_cells, history_fire_cells >>

NextSearch == Search

SpecSearch == InitSearch /\ [][NextSearch]_vars

\* --------------------------------------- the lookahead as a function
\* One call expectimax(state, depth, is_bot_turn, num_samples)
\* (botcontroller.py:143-167) on a generated ship for a state whose bot
\* cell is the button cell: any burning set of open cells, any time and
\* remaining depth up to MaxLookahead, either ply.
InitEval ==
  /\ open \in Mazes
  /\ button_cell \in open
  /\ q \in {0, QDen}
  /\ lookahead \in
       [state : {button_cell} \X (SUBSET open) \X (0..MaxLookahead),
        depth : 0..MaxLookahead, is_bot_turn : BOOLEAN, value : {0}, calls : {0}]
  /\ status = "query"
  /\ strategy = 4
  /\ bot = button_cell
  /\ initial_fire_cell = button_cell
  /\ on_fire = {}
  /\ path = <<>>
  /\ plan = <<>>
  /\ plan_blocked = {}
  /\ direction = "None"
  /\ new_fire_cells = {}
  /\ elapsed = 0
  /\ forecast = NoForecast
  /\ decision = NoDecision
  /\ on_fire_cells = {}
  /\ history_fire_cells = {}

Evaluate ==
  /\ status = "query"
  /\ LET result == expectimax(lookahead.state, lookahead.depth,
                              lookahead.is_bot_turn, 5)
     IN lookahead' = [lookahead EXCEPT !.value = result.value,
                                       !.calls = result.calls]
  /\ status' = "evaluated"
  /\ UNCHANGED << open, on_fire, q, bot, button_cell, initial_fire_cell, strategy,
                  path, plan, plan_blocked, direction, new_fire_cells,
                  elapsed, forecast, decision,
                  on_fire_cells, history_fire_cells >>

NextEval == Evaluate

SpecEval == InitEval /\ [][NextEval]_vars

\* ------------------------------------- the values on a default ship
\* One call of expectimax with no depth left, which returns evaluate(state)
\* (botcontroller.py:150-151), on a ship of the default dimension.  The
\* button is in a corner, so that the state's cell takes every row and
\* column distance 0..DefaultDimension-1 from it; t is any ply count the
\* search reaches, 0..MaxDepth+1; the state's cell and the button burn or
\* not.  evaluate reads the two cells, the burning set and t only: open
\* holds just the cells named.
ShipCells == (0..(DefaultDimension - 1)) \X (0..(DefaultDimension - 1))

InitValue ==
  /\ button_cell \in {0, DefaultDimension - 1} \X {0, DefaultDimension - 1}
  /\ bot \in ShipCells
  /\ on_fire \in {{}, {bot}, {button_cell}, {bot, button_cell}}
  /\ \E t \in 0..(MaxDepth + 1) :
       lookahead = [state |-> << bot, on_fire, t >>, depth |-> 0,
                    is_bot_turn |-> TRUE, value |-> 0, calls |-> 0]
  /\ open = {bot, button_cell}
  /\ q = 0
  /\ status = "query"
  /\ strategy = 4
  /\ initial_fire_cell = button_cell
  /\ path = <<>>
  /\ plan = <<>>
  /\ plan_blocked = {}
  /\ direction = "None"
  /\ new_fire_cells = {}
  /\ elapsed = 0
  /\ forecast = NoForecast
  /\ decision = NoDecision
  /\ on_fire_cells = {}
  /\ history_fire_cells = {}

SpecValue == InitValue /\ [][NextEval]_vars

\* ------------------------------------------ the bot without a neighbour
\* Ships on which some open cell has no open neighbour.  generate_maze
\* never leaves such a cell; a ship gets this shape when its cells are
\* reset and opened one by one (cell.py:9-11 and 49-50) after
\* construction:      .#.        .#.
\*                    ###        #.#
\*                    ...        .#.
IsolatedShips ==
  { { <<0,0>>, <<0,2>>, <<2,0>>, <<2,1>>, <<2,2>> },
    { <<0,0>>, <<0,2>>, <<1,1>>, <<2,0>>, <<2,2>> } }

\* environment.py:12-29 and botcontroller.py:9-19 on such a ship, the bot
\* placed on a cell without open neighbour
InitIsolated ==
  /\ open \in IsolatedShips
  /\ q \in QValues
  /\ strategy \in Strategies
  /\ strategy = 4 => q \in {0, QDen}
  /\ bot \in {c \in open : get_open_neighbors(c) = <<>>}
  /\ button_cell \in open \ {bot}
  /\ initial_fire_cell \in open \ {bot, button_cell}
  /\ on_fire = {initial_fire_cell}
  /\ path = IF strategy = 1 THEN a_star(bot, button_cell, {initial_fire_cell}) ELSE <<>>
  /\ plan = <<>>
  /\ plan_blocked = IF strategy = 1 THEN {initial_fire_cell} ELSE {}
  /\ direction = "None"
  /\ new_fire_cells = {}
  /\ status = "ongoing"
  /\ lookahead = NoLookahead
  /\ elapsed = 0
  /\ forecast = NoForecast
  /\ decision = NoDecision
  /\ on_fire_cells = {}
  /\ history_fire_cells = {}

SpecIsolated == InitIsolated /\ [][Next]_vars

\* ------------------------------------- the decision as a function
\* The burning sets that up to k calls of update_fire (environment.py:31-48)
\* make of the burning sets of fires, with the q of the episode.
RECURSIVE FiresAfter(_, _)
FiresAfter(fires, k) ==
  IF k = 0 THEN fires
  ELSE CHOOSE result \in
         { FiresAfter(next, k - 1) :
             next \in
               { fires \cup
                 UNION { {fire \cup ignited :
                            ignited \in CollectNewFireCells(get_open_cells, fire, {})} :
                         fire \in fires } } } :
         TRUE

\* One call of expectimax_decision (botcontroller.py:117-141) in a timestep
\* of strategy 4: a generated ship or one of the ships above, bot, button and
\* ignition cell three distinct open cells, and the fire as far as up to
\* MaxTicks calls of update_fire spread it without reaching the bot.
InitDecision ==
  /\ open \in Mazes \cup IsolatedShips
  /\ q \in {0, QDen}
  /\ initial_fire_cell \in open
  /\ on_fire \in FiresAfter({{initial_fire_cell}}, MaxTicks)
  /\ bot \in open \ on_fire
  /\ button_cell \in open \ {bot, initial_fire_cell}
  /\ strategy = 4
  /\ status = "query"
  /\ path = <<>>
  /\ plan = <<>>
  /\ plan_blocked = {}
  /\ direction = "None"
  /\ new_fire_cells = {}
  /\ lookahead = NoLookahead
  /\ elapsed = 0
  /\ forecast = NoForecast
  /\ decision = NoDecision
  /\ on_fire_cells = {}
  /\ history_fire_cells = {}

\* botcontroller.py:105-115, plan_path_bot4 with its call of
\* expectimax_decision
Decide ==
  /\ status = "query"
  /\ LET run == expectimax_decision_run(MaxDepth, 5)
     IN /\ decision' = run
        /\ plan' = run.best_move
  /\ status' = "decided"
  /\ UNCHANGED << open, on_fire, q, bot, button_cell, initial_fire_cell, strategy,
                  path, plan_blocked, direction, new_fire_cells, lookahead,
                  elapsed, forecast,
                  on_fire_cells, history_fire_cells >>

NextDecision == Decide

SpecDecision == InitDecision /\ [][NextDecision]_vars

\* ------------------------------------------------ the planner query
\* One call of get_next_move (botcontroller.py:345-386) of a replanning
\* strategy in a timestep of an episode on a generated ship, without the
\* tick that follows it, and the calls of simulate_fire that the lookahead
\* of strategy 4 makes on the burning sets of its search, the first of which
\* is the burning set of the ship (botcontroller.py:122-124).
InitQuery ==
  /\ open \in Mazes
  /\ q \in QValues
  /\ initial_fire_cell \in open
  /\ on_fire \in FiresAfter({{initial_fire_cell}}, MaxTicks)
  /\ bot \in open \ on_fire
  /\ button_cell \in open \ {bot, initial_fire_cell}
  /\ strategy \in {2, 3, 4, 5}
  /\ strategy = 4 => q \in {0, QDen}
  /\ lookahead = [NoLookahead EXCEPT !.state = << bot, on_fire, 0 >>]
  /\ status = "ongoing"
  /\ path = <<>>
  /\ plan = <<>>
  /\ plan_blocked = {}
  /\ direction = "None"
  /\ new_fire_cells = {}
  /\ elapsed = 0
  /\ forecast = NoForecast
  /\ decision = NoDecision
  /\ on_fire_cells = {}
  /\ history_fire_cells = {}

\* botcontroller.py:345-386: get_next_move assigns the direction it returns
\* and nothing of the bot or the ship; with strategy 4 it returns when the
\* lookahead has drawn its samples
Query ==
  /\ status = "ongoing"
  /\ strategy = 4 => lookahead.calls = MaxLookahead
  /\ \E m \in get_next_move :
       /\ direction' = m.direction
       /\ path' = m.path
       /\ plan' = m.plan
       /\ plan_blocked' = m.plan_blocked
  /\ status' = "queried"
  /\ UNCHANGED << open, on_fire, q, bot, button_cell, initial_fire_cell, strategy,
                  new_fire_cells, lookahead, elapsed, forecast, decision,
                  on_fire_cells, history_fire_cells >>

\* botcontroller.py:164-165, one sample of a chance node: simulate_fire is
\* called with the burning set of the node, and the set returned becomes the
\* burning set of the next node
Sample ==
  /\ status = "ongoing"
  /\ strategy = 4
  /\ lookahead.calls < MaxLookahead
  /\ \E sample \in simulate_fire_run(lookahead.state[2]) :
       /\ lookahead' = [lookahead EXCEPT
                          !.state = << lookahead.state[1], sample.new_fire_set,
                                       lookahead.state[3] >>,
                          !.calls = lookahead.calls + 1]
       /\ on_fire' = sample.on_fire
  /\ UNCHANGED << open, q, bot, button_cell, initial_fire_cell, strategy, path,
                  plan, plan_blocked, direction, new_fire_cells, status, elapsed,
                  forecast, decision,
                  on_fire_cells, history_fire_cells >>

NextQuery == Query \/ Sample

SpecQuery == InitQuery /\ [][NextQuery]_vars

\* ------------------------------------------------ the ship's fire sets
\* The ship's record of the fire: the on_fire flags of its cells and the
\* sets on_fire_cells and history_fire_cells; raised tells that a call
\* ended in the KeyError of set.remove.

\* ship.py:69-72
ignite_cell(ship, cell) ==
  [ship EXCEPT !.on_fire = @ \cup {cell}, !.on_fire_cells = @ \cup {cell}]

\* extinguish_cell clearing the flag and leaving on_fire_cells alone
extinguish_cell_flag_only(ship, cell) ==
  [ship EXCEPT !.on_fire = @ \ {cell},
               !.history_fire_cells = @ \cup {cell}]

\* ship.py:74-78; remove raises KeyError for a cell that is not in the set
extinguish_cell(ship, cell) ==
  [ship EXCEPT !.on_fire = @ \ {cell},
               !.history_fire_cells = @ \cup {cell},
               !.on_fire_cells = @ \ {cell},
               !.raised = cell \notin ship.on_fire_cells]

\* cell.ignite() as environment.py:25 and 48 call it.  cell.py has no such
\* method; it is taken to ignite the cell through the ship, which keeps the
\* burning cells in a maintained set.
ignite(ship, cell) == ignite_cell(ship, cell)

\* cell.extinguish() as environment.py:109 calls it, likewise
extinguish(ship, cell) == extinguish_cell(ship, cell)

\* environment.py:47-48, the loop over new_fire_cells
RECURSIVE IgniteAll(_, _, _)
IgniteAll(ship, cells, i) ==
  IF i > Len(cells) THEN ship
  ELSE IgniteAll(ignite(ship, cells[i]), cells, i + 1)

\* environment.py:108-109, the loop over get_on_fire_cells(), which ends
\* where a call raises
RECURSIVE ExtinguishAll(_, _, _)
ExtinguishAll(ship, cells, i) ==
  IF i > Len(cells) \/ ship.raised THEN ship
  ELSE ExtinguishAll(extinguish(ship, cells[i]), cells, i + 1)

\* the ship's record of the fire in the current state
ShipFire ==
  [on_fire |-> on_fire, on_fire_cells |-> on_fire_cells,
   history_fire_cells |-> history_fire_cells, raised |-> FALSE]

\* ship.py:5-16 and environment.py:12-25: a generated ship, nothing burning
\* and both sets empty, and the fire cell ignited
InitShip ==
  /\ open \in Mazes
  /\ q \in QValues
  /\ initial_fire_cell \in open
  /\ LET ship == ignite([on_fire |-> {}, on_fire_cells |-> {},
                         history_fire_cells |-> {}, raised |-> FALSE],
                        initial_fire_cell)
     IN /\ on_fire = ship.on_fire
        /\ on_fire_cells = ship.on_fire_cells
        /\ history_fire_cells = ship.history_fire_cells
  /\ status = "ongoing"
  /\ new_fire_cells = {}
  /\ strategy = 0
  /\ bot = initial_fire_cell
  /\ button_cell = initial_fire_cell
  /\ path = <<>>
  /\ plan = <<>>
  /\ plan_blocked = {}
  /\ direction = "None"
  /\ lookahead = NoLookahead
  /\ elapsed = 0
  /\ forecast = NoForecast
  /\ decision = NoDecision

\* environment.py:31-48, one call of update_fire in a tick that returns
\* "ongoing"
Spread ==
  /\ status = "ongoing"
  /\ \E ignited \in update_fire :
       LET ship == IgniteAll(ShipFire,
                             SelectSeq(get_open_cells, LAMBDA c : c \in ignited), 1)
       IN /\ new_fire_cells' = ignited
          /\ on_fire' = ship.on_fire
          /\ on_fire_cells' = ship.on_fire_cells
          /\ history_fire_cells' = ship.history_fire_cells
  /\ UNCHANGED << open, q, bot, button_cell, initial_fire_cell, strategy, path,
                  plan, plan_blocked, direction, status, lookahead, elapsed,
                  forecast, decision >>

\* environment.py:106-110, the branch of tick that returns "success": every
\* cell of get_on_fire_cells() is extinguished
PressButton ==
  /\ status = "ongoing"
  /\ LET ship == ExtinguishAll(ShipFire,
                               SelectSeq(get_open_cells, LAMBDA c : c \in on_fire), 1)
     IN /\ on_fire' = ship.on_fire
        /\ on_fire_cells' = ship.on_fire_cells
        /\ history_fire_cells' = ship.history_fire_cells
        /\ status' = IF ship.raised THEN "KeyError" ELSE "success"
  /\ UNCHANGED << open, q, bot, button_cell, initial_fire_cell, strategy, path,
                  plan, plan_blocked, direction, new_fire_cells, lookahead,
                  elapsed, forecast, decision >>

NextShip == Spread \/ PressButton

SpecShip == InitShip /\ [][NextShip]_vars

\* ------------------------------------------ the sample and the fire
\* One call of simulate_fire (botcontroller.py:194-213) with the burning
\* set of the ship, as at the root of the lookahead, or one call of
\* update_fire (environment.py:31-48) on the same ship: a generated ship
\* with any q and the fire as far as up to MaxTicks calls of update_fire
\* spread it.  lookahead.state holds the burning set passed to
\* simulate_fire and then the set returned.
InitSample ==
  /\ open \in Mazes
  /\ q \in QValues
  /\ initial_fire_cell \in open
  /\ on_fire \in FiresAfter({{initial_fire_cell}}, MaxTicks)
  /\ lookahead = [NoLookahead EXCEPT !.state = << initial_fire_cell, on_fire, 0 >>]
  /\ status = "query"
  /\ strategy = 4
  /\ bot = initial_fire_cell
  /\ button_cell = initial_fire_cell
  /\ path = <<>>
  /\ plan = <<>>
  /\ plan_blocked = {}
  /\ direction = "None"
  /\ new_fire_cells = {}
  /\ elapsed = 0
  /\ forecast = NoForecast
  /\ decision = NoDecision
  /\ on_fire_cells = {}
  /\ history_fire_cells = {}

\* botcontroller.py:194-213
Simulate ==
  /\ status = "query"
  /\ \E new_fire_set \in simulate_fire(lookahead.state[2]) :
       lookahead' = [lookahead EXCEPT
                       !.state = << lookahead.state[1], new_fire_set,
                                    lookahead.state[3] >>,
                       !.calls = 1]
  /\ status' = "sampled"
  /\ UNCHANGED << open, on_fire, q, bot, button_cell, initial_fire_cell, strategy,
                  path, plan, plan_blocked, direction, new_fire_cells, elapsed,
                  forecast, decision, on_fire_cells, history_fire_cells >>

\* environment.py:31-48
Update ==
  /\ status = "query"
  /\ \E ignited \in update_fire :
       /\ new_fire_cells' = ignited
       /\ on_fire' = on_fire \cup ignited
  /\ status' = "updated"
  /\ UNCHANGED << open, q, bot, button_cell, initial_fire_cell, strategy, path,
                  plan, plan_blocked, direction, lookahead, elapsed, forecast,
                  decision, on_fire_cells, history_fire_cells >>

NextSample == Simulate \/ Update

SpecSample == InitSample /\ [][NextSample]_vars

\* ------------------------------------------------------ the bot alone
\* The arguments Bot.move (bot.py:7-26) is called with: the four directions,
\* None (get_next_move without a move) and a string that names no
\* direction.
Directions == {"up", "down", "left", "right", "None", "north"}

\* environment.py:12-29 on a generated ship, on one of the ships with an
\* isolated cell or on the corridor: the bot on one of three distinct open
\* cells
InitMove ==
  /\ open \in Mazes \cup IsolatedShips \cup {{<<0, col>> : col \in 0..4}}
  /\ bot \in open
  /\ button_cell \in open \ {bot}
  /\ initial_fire_cell \in open \ {bot, button_cell}
  /\ on_fire = {initial_fire_cell}
  /\ q = 0
  /\ strategy = 0
  /\ status = "ongoing"
  /\ path = <<>>
  /\ plan = <<>>
  /\ plan_blocked = {}
  /\ direction = "None"
  /\ new_fire_cells = {}
  /\ lookahead = NoLookahead
  /\ elapsed = 0
  /\ forecast = NoForecast
  /\ decision = NoDecision
  /\ on_fire_cells = {}
  /\ history_fire_cells = {}

\* bot.py:7-26, one call of Bot.move with any argument
Move ==
  /\ \E dir \in Directions :
       /\ direction' = dir
       /\ bot' = move(dir)
  /\ UNCHANGED << open, on_fire, q, button_cell, initial_fire_cell, strategy,
                  path, plan, plan_blocked, new_fire_cells, status, lookahead,
                  elapsed, forecast, decision, on_fire_cells, history_fire_cells >>

NextMove == Move

SpecMove == InitMove /\ [][NextMove]_vars

\* ------------------------------------------------- the episode loop
\* The episodes of strategy 4 with q = 0 on the ship ..#/#../#.. : the fire
\* never spreads and the lookahead draws no random number, so every step of
\* such an episode is determined by its state.
InitLive ==
  /\ Init
  /\ strategy = 4
  /\ q = 0
  /\ Cardinality(open) = 6

\* statistics.py:40-42: the loop calls make_action again as long as the
\* result is "ongoing", so make_action is taken whenever it stays possible
SpecLive == InitLive /\ [][Next]_vars /\ WF_vars(make_action)

\* ------------------------------------------------------ the corridor
\* The straight corridor of five open cells in row 0, shaped cell by cell
\* like the ships above: the bot at column 0, the button at column 4 and the
\* fire ignited at column 3.
InitCorridor ==
  /\ open = {<<0, col>> : col \in 0..4}
  /\ q \in QValues
  /\ strategy \in Strategies
  /\ strategy = 4 => q \in {0, QDen}
  /\ bot = <<0, 0>>
  /\ button_cell = <<0, 4>>
  /\ initial_fire_cell = <<0, 3>>
  /\ on_fire = {initial_fire_cell}
  /\ path = IF strategy = 1 THEN a_star(bot, button_cell, {initial_fire_cell}) ELSE <<>>
  /\ plan = <<>>
  /\ plan_blocked = IF strategy = 1 THEN {initial_fire_cell} ELSE {}
  /\ direction = "None"
  /\ new_fire_cells = {}
  /\ status = "ongoing"
  /\ lookahead = NoLookahead
  /\ elapsed = 0
  /\ forecast = NoForecast
  /\ decision = NoDecision
  /\ on_fire_cells = {}
  /\ history_fire_cells = {}

SpecCorridor == InitCorridor /\ [][Next]_vars

\* ------------------------------------------- the fire and its forecast
\* The fire on a generated ship, which update_fire spreads without regard
\* to the bot, with the calls of update_fire counted in elapsed.  forecast
\* starts as the forecast from the ignition cell at time 0.
InitFire ==
  /\ open \in Mazes
  /\ q \in QValues
  /\ initial_fire_cell \in open
  /\ on_fire = {initial_fire_cell}
  /\ elapsed = 0
  /\ forecast = [from |-> on_fire, at |-> 0,
                 fire_time |-> predict_fire_spread_risk(<< initial_fire_cell >>)]
  /\ new_fire_cells = {}
  /\ status = "burning"
  /\ strategy = 0
  /\ bot = initial_fire_cell
  /\ button_cell = initial_fire_cell
  /\ path = <<>>
  /\ plan = <<>>
  /\ plan_blocked = {}
  /\ direction = "None"
  /\ lookahead = NoLookahead
  /\ decision = NoDecision
  /\ on_fire_cells = {}
  /\ history_fire_cells = {}

\* environment.py:31-48, one call of update_fire
Burn ==
  /\ elapsed < MaxTicks
  /\ \E ignited \in update_fire :
       /\ new_fire_cells' = ignited
       /\ on_fire' = on_fire \cup ignited
  /\ elapsed' = elapsed + 1
  /\ UNCHANGED << open, q, bot, button_cell, initial_fire_cell, strategy, path,
                  plan, plan_blocked, direction, status, lookahead, forecast,
                  decision,
                  on_fire_cells, history_fire_cells >>

\* botcontroller.py:293-317 called with the cells burning now
Forecast ==
  /\ forecast.at # elapsed
  /\ forecast' = [from |-> on_fire, at |-> elapsed,
                  fire_time |-> predict_fire_spread_risk(
                                  SelectSeq(get_open_cells, LAMBDA c : c \in on_fire))]
  /\ UNCHANGED << open, on_fire, q, bot, button_cell, initial_fire_cell, strategy,
                  path, plan, plan_blocked, direction, new_fire_cells, status,
                  lookahead, elapsed, decision,
                  on_fire_cells, history_fire_cells >>

NextFire == Burn \/ Forecast

SpecFire == InitFire /\ [][NextFire]_vars

\* ============================================================== claims
\* two cells one axis-aligned step apart
Adjacent(a, b) ==
  \/ a[1] = b[1] /\ (a[2] = b[2] + 1 \/ b[2] = a[2] + 1)
  \/ a[2] = b[2] /\ (a[1] = b[1] + 1 \/ b[1] = a[1] + 1)

\* the open cells that are not burning in fire and have a neighbour in fire
IgnitableCells(fire) ==
  {c \in open : c \notin fire /\ \E n \in fire : Adjacent(c, n)}

\* breadth-first distance from start to goal, every step into a cell of
\* allowed; -1 when the goal is not reached
RECURSIVE BFSLevel(_, _, _, _, _)
BFSLevel(frontier, seen, d, goal, allowed) ==
  IF goal \in frontier THEN d
  ELSE IF frontier = {} THEN -1
  ELSE LET nxt == {n \in allowed \ seen : \E c \in frontier : Adjacent(c, n)}
       IN BFSLevel(nxt, seen \cup nxt, d + 1, goal, allowed)

ShortestDistance(start, goal, allowed) ==
  BFSLevel({start}, {start}, 0, goal, allowed)

\* C1: one call of update_fire ignites only cells that were open, not
\* burning and next to a burning cell in the state at the start of the call;
\* a cell ignited in the call is no burning neighbour for another cell's
\* decision in the same call.
C1_SnapshotIgnition ==
  [][new_fire_cells' \subseteq IgnitableCells(on_fire)]_vars

\* a call has ignited cells and left unburnt an open cell whose only burning
\* neighbours are the cells ignited in that very call, although q = 1
C1_Witness ==
  /\ q = QDen
  /\ status = "ongoing"
  /\ new_fire_cells # {}
  /\ \E c \in open \ on_fire :
       /\ \E n \in new_fire_cells : Adjacent(c, n)
       /\ \A n \in on_fire \ new_fire_cells : ~Adjacent(c, n)

\* C2: the ignition chance 1 - (1 - q)^k is deterministic at the extremes:
\* with q = 0 update_fire ignites nothing and the burning set stays the
\* initial ignition cell until the extinguish of success; with q = 1 it
\* ignites every open unburnt cell with a burning neighbour.
C2_ExtremeQ ==
  /\ (q = 0 => on_fire = {initial_fire_cell})
  /\ [][ /\ q = 0 =>
              /\ new_fire_cells' = {}
              /\ status' # "success" => on_fire' = {initial_fire_cell}
         /\ q = QDen => new_fire_cells' = IgnitableCells(on_fire) ]_vars

\* with q = 0 a tick has run next to the fire and nothing ignited
C2_Witness ==
  /\ q = 0
  /\ direction # "None"
  /\ status = "ongoing"
  /\ on_fire = {initial_fire_cell}
  /\ Adjacent(bot, initial_fire_cell)

\* C3: a cell's on_fire flag goes from true to false only in the tick in
\* which the bot reaches the button; before success the burning set never
\* shrinks.
C3_FireMonotone ==
  [][ \/ on_fire \subseteq on_fire'
      \/ status' = "success" /\ bot' = button_cell ]_vars

\* the fire spread in the tick that ended in success, and was extinguished
C3_Witness ==
  /\ status = "success"
  /\ q \notin {0, QDen}
  /\ new_fire_cells # {}
  /\ on_fire = {}

\* C5: whenever a tick returns success, no cell is burning afterwards.
C5_SuccessExtinguishesAll ==
  status = "success" => \A c \in Cells : c \notin on_fire

\* success in a tick in which q = 1 ignited at least two more cells
C5_Witness ==
  /\ status = "success"
  /\ q = QDen
  /\ Cardinality(new_fire_cells) >= 2

\* C4: every tick applies the move; fails if the bot now stands on a
\* burning cell; else succeeds if it stands on the button, before the fire
\* advances; else advances the fire one step and fails if the bot's cell
\* burns now, and is ongoing otherwise.
C4_TickOrder ==
  [][ LET target == move(direction')
      IN /\ bot' = target
         /\ IF target \in on_fire THEN status' = "failure"
            ELSE IF target = button_cell THEN status' = "success"
            ELSE /\ new_fire_cells' \in update_fire
                 /\ status' = IF target \in on_fire \cup new_fire_cells'
                              THEN "failure" ELSE "ongoing" ]_vars

\* C6: a non-empty result of a_star is a path of pairwise adjacent cells
\* from a neighbour of start to goal, start excluded, every cell open and
\* not blocked, as long as the breadth-first distance from start to goal
\* over the open cells that are not blocked.
C6_AStarShortestPath ==
  (status = "planned" /\ plan # <<>>) =>
    /\ Adjacent(bot, plan[1])
    /\ \A i \in 1..(Len(plan) - 1) : Adjacent(plan[i], plan[i + 1])
    /\ plan[Len(plan)] = button_cell
    /\ \A i \in 1..Len(plan) :
         plan[i] \in open /\ plan[i] \notin plan_blocked /\ plan[i] # bot
    /\ Len(plan) = ShortestDistance(bot, button_cell, open \ plan_blocked)

\* a search that had to go around blocked cells
C6_Witness ==
  /\ status = "planned"
  /\ plan # <<>>
  /\ Len(plan) > ShortestDistance(bot, button_cell, open)

\* C7: a_star returns the empty path if and only if the goal cannot be
\* reached from the start through open cells that are not blocked.
C7_EmptyIffUnreachable ==
  status = "planned" =>
    (plan = <<>> <=> ShortestDistance(bot, button_cell, open \ plan_blocked) = -1)

\* a search cut off from a goal that is itself not blocked
C7_Witness ==
  /\ status = "planned"
  /\ plan = <<>>
  /\ button_cell \notin plan_blocked
  /\ bot \notin plan_blocked

\* C8: strategy 1 plans once, at construction, blocking only the initial
\* fire cell; every later get_next_move takes the next cell of the stored
\* path, whatever has ignited since, and the path is never recomputed.
C8_PlanOnce ==
  /\ strategy = 1 =>
       /\ path = a_star(bot, button_cell, {initial_fire_cell})
       /\ plan_blocked = {initial_fire_cell}
  /\ [][ strategy = 1 =>
           /\ plan' = path
           /\ plan_blocked' = {initial_fire_cell}
           /\ path # <<>> =>
                /\ path' = Tail(path)
                /\ direction' = get_direction_from_positions(bot, Head(path))
                /\ bot' = Head(path)
           /\ path = <<>> => path' = <<>> ]_vars

\* strategy 1 keeps following a stored path that the fire has reached
C8_Witness ==
  /\ strategy = 1
  /\ status = "ongoing"
  /\ plan # <<>>
  /\ path # <<>>
  /\ \E i \in 1..Len(path) : path[i] \in on_fire

\* C9: strategy 2 plans at every timestep with the burning cells of that
\* timestep blocked: a non-empty path has no cell burning at planning time
\* and the cell the bot moves to is not burning at the move.
C9_ReplanAvoidsFire ==
  [][ strategy = 2 =>
        /\ plan_blocked' = on_fire
        /\ plan' = a_star(bot, button_cell, on_fire)
        /\ plan' # <<>> =>
             /\ \A i \in 1..Len(plan') : plan'[i] \notin on_fire
             /\ bot' = plan'[1]
             /\ bot' \notin on_fire ]_vars

\* strategy 2 found a path around a fire that had spread before planning
C9_Witness ==
  /\ strategy = 2
  /\ plan # <<>>
  /\ Cardinality(plan_blocked) >= 2
  /\ Len(plan) >= 3

\* C10: plan_path_bot3 returns the strict search's path whenever there is
\* one and falls back to the strategy-2 search exactly when there is none;
\* a returned path is never shorter than the shortest path over all open
\* cells, and the result is empty only if the strategy-2 search is empty.
C10_Bot3Fallback ==
  (status = "ongoing" /\ strategy = 3) =>
    LET strict == a_star(bot, button_cell, blocked_strict)
        bot2 == plan_path_bot2
        run == plan_path_bot3_run
    IN /\ strict # <<>> => (run.path = strict /\ ~run.fell_back)
       /\ strict = <<>> => (run.path = bot2 /\ run.fell_back)
       /\ run.path = plan_path_bot3
       /\ run.path # <<>> => Len(run.path) >= ShortestDistance(bot, button_cell, open)
       /\ run.path = <<>> => bot2 = <<>>

\* a tick of strategy 3 in which the strict search found nothing and the
\* move followed the path of the fallback, planned with only the cells
\* burning at that time blocked
C10_Witness ==
  /\ strategy = 3
  /\ direction # "None"
  /\ plan # <<>>
  /\ plan_blocked = on_fire \ new_fire_cells
  /\ status = "ongoing"

NearestFireDistance(fire, c) ==
  LET d == BFSLevel(fire, fire, 0, c, open)
  IN IF d = -1 THEN Inf ELSE d

\* C13: the forecast the risk-aware planner consumes at a timestep gives for
\* every cell the distance over open cells from the nearest cell of the
\* burning set current at that timestep: 0 on the burning cells, infinity on
\* the cells the fire cannot reach.
C13_ForecastFromCurrentFire ==
  (strategy = 5 /\ status = "ongoing") =>
    \A c \in Cells : fire_time_bot5[c] = NearestFireDistance(on_fire, c)

\* C19: in the risk-aware search the edge from a cell reached with path
\* length g into a neighbour is rejected exactly when the forecast arrival
\* time of the neighbour is at most g + 1, the path length of that very
\* edge, whatever number of edges the search examined before.
C19_CutOffPerEdge ==
  (strategy = 5 /\ status = "ongoing") =>
    \A e \in plan_path_bot5_run.edges :
      e.rejected <=> e.fire_arrival <= e.g + 1

\* C12: with q = 0, whenever the button is reachable from the bot through
\* open cells other than the single ignited cell, the episode of every
\* strategy ends in success on every run: no tick of such a run returns
\* failure.
C12_QZeroSucceeds ==
  [][ ( /\ q = 0
        /\ status = "ongoing"
        /\ ShortestDistance(bot, button_cell, open \ {initial_fire_cell}) # -1 )
      => status' # "failure" ]_vars

\* C14: expectimax on a state whose bot cell is the button cell returns
\* 10000 - t for every remaining depth, zero included, for either ply and
\* whatever the burning set, also when it holds the button cell; the call
\* makes no further call of expectimax.
C14_GoalValue ==
  status = "evaluated" =>
    /\ lookahead.value = 10000 - lookahead.state[3]
    /\ lookahead.calls = 0

\* a chance-node call with depth left and time passed, on the button cell
\* that is burning, was evaluated
C14_Witness ==
  /\ status = "evaluated"
  /\ lookahead.state[1] = button_cell
  /\ button_cell \in lookahead.state[2]
  /\ lookahead.depth > 0
  /\ lookahead.state[3] > 0
  /\ ~lookahead.is_bot_turn
  /\ lookahead.value = 10000 - lookahead.state[3]

\* the planner of the active strategy yields no move: its path is empty or,
\* for the lookahead, every open neighbour of the bot burns
NoPlannedMove ==
  \/ strategy = 1 /\ path = <<>>
  \/ strategy = 2 /\ plan_path_bot2 = <<>>
  \/ strategy = 3 /\ plan_path_bot3 = <<>>
  \/ strategy = 4 /\ SeqToSet(get_open_neighbors(bot)) \subseteq on_fire
  \/ strategy = 5 /\ plan_path_bot5 = <<>>

\* C15: when the planner of the active strategy yields no move, get_next_move
\* still returns a direction, one that leads to an open neighbour of the
\* bot's cell; the random fallback of an empty path chooses among all open
\* neighbours, burning or not.
C15_FallbackMove ==
  (status = "ongoing" /\ NoPlannedMove /\ get_open_neighbors(bot) # <<>>) =>
    LET directions == {m.direction : m \in get_next_move}
        to_open == {get_direction_from_positions(bot, n) :
                      n \in SeqToSet(get_open_neighbors(bot))}
    IN /\ directions # {}
       /\ directions \subseteq to_open
       /\ \A d \in directions : move(d) \in SeqToSet(get_open_neighbors(bot))
       /\ strategy # 4 => directions = to_open

\* a tick moved the bot by the fallback, and the planner again has no path
\* while one of several open neighbours burns
C15_Witness ==
  /\ status = "ongoing"
  /\ strategy \in {2, 3, 5}
  /\ plan = <<>>
  /\ direction # "None"
  /\ NoPlannedMove
  /\ Len(get_open_neighbors(bot)) >= 2
  /\ \E n \in SeqToSet(get_open_neighbors(bot)) : n \in on_fire

\* C16: when the bot's cell has no open neighbour, get_next_move of every
\* strategy returns None, and the tick that follows leaves the bot on its
\* cell.
C16_NoLegalMove ==
  (status = "ongoing" /\ get_open_neighbors(bot) = <<>>) =>
    \A m \in get_next_move : m.direction = "None" /\ move(m.direction) = bot

\* a tick ran for a bot without open neighbour: no direction, the bot stayed
\* and the fire spread elsewhere
C16_Witness ==
  /\ get_open_neighbors(bot) = <<>>
  /\ status = "ongoing"
  /\ direction = "None"
  /\ new_fire_cells # {}
  /\ Cardinality(on_fire) >= 2

\* C17: every episode driven by repeated calls of make_action eventually
\* returns success or failure, it never stays ongoing for ever; after a
\* result other than ongoing no further tick runs.
C17_EpisodeEnds ==
  /\ <>(status \in {"success", "failure"})
  /\ [][status = "ongoing"]_vars

\* C18 as stated: on the corridor with the fire ignited at column 3, with
\* q = 1 the planners that block burning cells (strategies 2 and 3) report
\* no path, and with q = 0 the bot always ends in success: no run with
\* q = 0 ends in failure.
C18_CorridorAsStated ==
  /\ (q = QDen /\ strategy \in {2, 3}) => plan = <<>>
  /\ q = 0 => status # "failure"

\* C18, amended: on the corridor with the fire ignited at column 3, with
\* q = 1 the planners that block burning cells (strategies 2 and 3) report
\* no path in every call, and with q = 0 the bot never ends in success: the
\* burning column 3 stays between the bot and the button.
C18_CorridorBlocked ==
  /\ (q = QDen /\ strategy \in {2, 3}) =>
       /\ plan = <<>>
       /\ status = "ongoing" => (plan_path_bot2 = <<>> /\ plan_path_bot3 = <<>>)
  /\ q = 0 => status # "success"

\* with q = 0 a planner that blocks burning cells found no path, and the
\* random moves took the bot up to column 2 and then onto the burning
\* column 3
C18_Witness ==
  /\ q = 0
  /\ strategy \in {2, 3}
  /\ plan = <<>>
  /\ direction = "right"
  /\ bot = <<0, 3>>
  /\ status = "failure"

\* C20: the forecast is a lower bound on the real fire: in every run and for
\* every q no cell ignites earlier than the arrival time forecast for it
\* from the burning set the forecast was computed from, neither by the
\* multi-source forecast nor by the single-source forecast from the
\* ignition cell; a cell with forecast infinity never ignites.
C20_ForecastLowerBound ==
  LET single == predict_fire_spread
      initial == fire_time_bot5
  IN /\ \A c \in new_fire_cells :
          /\ forecast.fire_time[c] <= elapsed - forecast.at
          /\ single[c] <= elapsed
          /\ initial[c] <= elapsed
     /\ \A c \in on_fire : forecast.fire_time[c] # Inf /\ single[c] # Inf

\* a cell ignited exactly at its forecast arrival time, two calls of
\* update_fire after a forecast taken while the fire was already spreading
C20_Witness ==
  /\ forecast.at >= 1
  /\ Cardinality(forecast.from) >= 2
  /\ elapsed = forecast.at + 2
  /\ \E c \in new_fire_cells : forecast.fire_time[c] = 2

\* C21: on a ship of the default dimension and for every ply count up to
\* max_depth + 1, the value of a state that is neither a win nor a loss lies
\* strictly between the loss penalty and every win reward: the heuristic
\* never ranks a state below a loss or above a win.
C21_ValueOrder ==
  (status = "evaluated" /\ ~is_terminal(lookahead.state)) =>
    \A t \in 0..(MaxDepth + 1) :
      /\ evaluate(<< lookahead.state[1], {lookahead.state[1]}, t >>) < lookahead.value
      /\ lookahead.value < evaluate(<< button_cell, {}, t >>)

\* the state farthest from the button at the largest ply count was evaluated
C21_Witness ==
  /\ status = "evaluated"
  /\ ~is_terminal(lookahead.state)
  /\ heuristic(lookahead.state[1], button_cell) = 2 * (DefaultDimension - 1)
  /\ lookahead.state[3] = MaxDepth + 1
  /\ lookahead.value = 0 - (2 * (DefaultDimension - 1) * 20) - (MaxDepth + 1)

\* the value the root search of the given depth gives the step to neighbour n
RootValue(n, depth) ==
  expectimax(<< n, get_on_fire_cells, 1 >>, depth, FALSE, 5).value

\* C22: expectimax_decision runs one root search per depth limit
\* 1..max_depth, in increasing order; when the bot has an open neighbour it
\* returns the candidate of the search of depth max_depth, an open neighbour
\* whose value at that depth no open neighbour exceeds; it returns None
\* exactly when the bot has no open neighbour.
C22_DeepestDecision ==
  status = "decided" =>
    LET rounds == decision.rounds
        nbrs == SeqToSet(get_open_neighbors(bot))
    IN /\ Len(rounds) = MaxDepth
       /\ \A i \in 1..Len(rounds) : rounds[i].depth = i
       /\ plan = decision.best_move
       /\ decision.best_move = << >> <=> nbrs = {}
       /\ nbrs # {} =>
            /\ decision.best_move = rounds[MaxDepth].candidate_move
            /\ Len(decision.best_move) = 1
            /\ decision.best_move[1] \in nbrs
            /\ \A n \in nbrs :
                 RootValue(n, MaxDepth) <= RootValue(decision.best_move[1], MaxDepth)

\* a decision in which the search of depth max_depth chose another move
\* than the search of depth 1, and the move returned is the later one
C22_Witness ==
  /\ status = "decided"
  /\ Len(decision.rounds) = MaxDepth
  /\ decision.rounds[1].candidate_move # << >>
  /\ decision.rounds[1].candidate_move # decision.rounds[MaxDepth].candidate_move
  /\ decision.best_move = decision.rounds[MaxDepth].candidate_move

\* the directions in the order in which set_cell_neighbors (ship.py:29)
\* lists the neighbours of a cell
DirectionRank(d) ==
  CASE d = "up" -> 1 [] d = "down" -> 2 [] d = "left" -> 3 [] d = "right" -> 4
    [] OTHER -> 5

\* C23: every root search values the open neighbours of the bot in the order
\* up, down, left, right, and its candidate is the first of them that has
\* the greatest value: a later neighbour of equal value does not replace it.
C23_FirstMaximum ==
  status = "decided" =>
    \A r \in 1..Len(decision.rounds) :
      LET round == decision.rounds[r]
          examined == round.examined
      IN /\ {examined[i].move : i \in 1..Len(examined)}
              = SeqToSet(get_open_neighbors(bot))
         /\ \A i \in 1..Len(examined) :
              examined[i].value = RootValue(examined[i].move, round.depth)
         /\ \A i, j \in 1..Len(examined) :
              i < j => DirectionRank(get_direction_from_positions(bot, examined[i].move))
                         < DirectionRank(get_direction_from_positions(bot, examined[j].move))
         /\ examined # << >> =>
              \E k \in 1..Len(examined) :
                /\ round.candidate_move = << examined[k].move >>
                /\ round.best_value = examined[k].value
                /\ \A i \in 1..Len(examined) : examined[i].value <= examined[k].value
                /\ \A i \in 1..(k - 1) : examined[i].value < examined[k].value

\* the search of depth max_depth found the greatest value at two neighbours
\* and kept the first
C23_Witness ==
  /\ status = "decided"
  /\ Len(decision.rounds) = MaxDepth
  /\ LET round == decision.rounds[MaxDepth]
         examined == round.examined
     IN \E i, j \in 1..Len(examined) :
          /\ i < j
          /\ examined[i].value = round.best_value
          /\ examined[j].value = round.best_value
          /\ round.candidate_move = << examined[i].move >>
          /\ decision.best_move = << examined[i].move >>

\* C24: a call of get_next_move with strategy 2, 3, 4 or 5 and every sample
\* of simulate_fire leave the bot's cell and the open and on_fire flags of
\* every cell as they were; simulate_fire returns a set that contains the
\* set it was given and leaves the given set itself unchanged.
C24_QueryFrame ==
  [][ /\ bot' = bot
      /\ open' = open
      /\ on_fire' = on_fire
      /\ lookahead' # lookahead =>
           \A sample \in simulate_fire_run(lookahead.state[2]) :
             /\ sample.fire_set = lookahead.state[2]
             /\ sample.on_fire = on_fire
             /\ lookahead.state[2] \subseteq sample.new_fire_set
             /\ sample.new_fire_set \subseteq open ]_vars

\* the lookahead drew samples that spread the fire of its search, and
\* get_next_move returned a move, while the ship burns as before
C24_Witness ==
  /\ status = "queried"
  /\ strategy = 4
  /\ direction # "None"
  /\ lookahead.calls = MaxLookahead
  /\ on_fire \subseteq lookahead.state[2]
  /\ lookahead.state[2] # on_fire

IgnitionChanceNum(c, fire) ==
  LET k == Cardinality({n \in fire : Adjacent(c, n)})
  IN QDen^k - (QDen - q)^k

\* the burning sets that cell-by-cell draws with the chance 1 - (1 - q)^k can
\* make of fire: a cell next to the fire can ignite when its chance is above
\* 0 and can stay unburnt when its chance is below 1
SpreadOutcomes(fire) ==
  { fire \cup ignited :
      ignited \in
        {s \in SUBSET IgnitableCells(fire) :
           /\ \A c \in s : IgnitionChanceNum(c, fire) > 0
           /\ \A c \in IgnitableCells(fire) \ s :
                LET k == Cardinality({n \in fire : Adjacent(c, n)})
                IN IgnitionChanceNum(c, fire) < QDen^k} }

\* C26: for the burning set F of the ship, the sets simulate_fire(F) can
\* return are the burning sets update_fire can leave: F with some of the
\* open cells outside F that have a neighbour in F, each drawn with the
\* chance 1 - (1 - q)^k for its k neighbours in F.  A set returned by
\* simulate_fire is a possible result of update_fire, and the other way
\* round.
C26_SampleIsUpdate ==
  /\ status = "query" =>
       /\ simulate_fire(on_fire) = {on_fire \cup ignited : ignited \in update_fire}
       /\ simulate_fire(on_fire) = SpreadOutcomes(on_fire)
  /\ status = "sampled" =>
       /\ lookahead.state[2] \in {on_fire \cup ignited : ignited \in update_fire}
       /\ on_fire \subseteq lookahead.state[2]
       /\ lookahead.state[2] \ on_fire \subseteq IgnitableCells(on_fire)
  /\ status = "updated" =>
       /\ on_fire \in simulate_fire(lookahead.state[2])
       /\ new_fire_cells \subseteq IgnitableCells(lookahead.state[2])

\* a sample that ignited one cell next to the fire and left another unburnt
C26_Witness ==
  /\ status = "sampled"
  /\ lookahead.state[2] # on_fire
  /\ IgnitableCells(on_fire) \ lookahead.state[2] # {}
  /\ Cardinality(on_fire) >= 2

\* the cell one step from cell c in direction d; c itself for an argument
\* that names no direction
StepFrom(c, d) ==
  CASE d = "up"    -> << c[1] - 1, c[2] >>
    [] d = "down"  -> << c[1] + 1, c[2] >>
    [] d = "left"  -> << c[1], c[2] - 1 >>
    [] d = "right" -> << c[1], c[2] + 1 >>
    [] OTHER       -> c

\* C27: through any sequence of calls of Bot.move, with any argument, the
\* bot is on an open cell of the grid; a call moves it to the cell one step
\* in the given direction when that cell is on the grid and open, and leaves
\* it where it is otherwise.
C27_MoveStaysOpen ==
  [][ /\ bot \in open /\ bot \in Cells
      /\ bot' \in open /\ bot' \in Cells
      /\ IF StepFrom(bot, direction') \in Cells \cap open
         THEN bot' = StepFrom(bot, direction')
         ELSE bot' = bot
      /\ bot' # bot => Adjacent(bot, bot') ]_vars

\* a call asked for a step up from the top row, with a closed cell below:
\* the bot stayed where it was
C27_Witness ==
  /\ direction = "up"
  /\ bot[1] = 0
  /\ << 1, bot[2] >> \notin open
  /\ bot \in open

\* ------------------------------------------- runs of strategy 3 alone
\* environment.py:12-29 with the controller built for strategy 3
InitStrict ==
  /\ Init
  /\ strategy = 3

\* the loop of statistics.py:40-42 around make_action
NextStrict == make_action

SpecStrict == InitStrict /\ [][NextStrict]_vars

\* C28: with strategy 3, in a timestep whose strict search finds a path (the
\* step's search blocked the burning cells and their open neighbours and its
\* path is not empty), the bot moves to the first cell of that path; that
\* cell is not burning and has no burning neighbour when the timestep starts,
\* it is not burning after the fire advance of the timestep, and the tick
\* does not return failure.
C28_StrictStepSafe ==
  [][ ( /\ strategy = 3
        /\ status = "ongoing"
        /\ plan' # << >>
        /\ plan_blocked' = blocked_strict ) =>
      /\ \A i \in 1..Len(plan') : plan'[i] \notin blocked_strict
      /\ bot' = plan'[1]
      /\ bot' # bot
      /\ bot' \notin on_fire
      /\ \A cell \in on_fire : ~Adjacent(cell, bot')
      /\ bot' \notin new_fire_cells'
      /\ bot' \notin on_fire'
      /\ status' # "failure" ]_vars

\* a strict path was followed while the fire spread in the same timestep:
\* the blocked set of the step holds a neighbour of the fire still unburnt
C28_Witness ==
  /\ strategy = 3
  /\ status = "ongoing"
  /\ plan # << >>
  /\ bot = plan[1]
  /\ new_fire_cells # {}
  /\ ~(plan_blocked \subseteq on_fire)

====
